---- MODULE Spec2Model ----
(***************************************************************************)
(* Context selection of the portfolio backend: the portfolio store        *)
(* (load_portfolio / reload_portfolio over a cache keyed by the file's     *)
(* mtime), the keyword router, the lazily built dense retriever, the       *)
(* selector select_context and the link extractor extract_links, all of   *)
(* backend/retrieval/store.py.                                             *)
(*                                                                         *)
(* Strings that the code inspects (questions, the ENABLE_RAG value) are    *)
(* sequences of one-character strings, so that lower() and the substring   *)
(* test `word in q` are computed.  JSON values are tagged records          *)
(* [t, k, v]; Python's None is JSON null.  A context string is either the  *)
(* output of json.dumps (kind "json", parsed back by json.loads) or plain  *)
(* text (kind "text", a sequence of non-empty pieces; "" is <<>>).         *)
(*                                                                         *)
(* The API calls are single steps; load_portfolio and reload_portfolio     *)
(* are also given statement by statement, for requests in flight together  *)
(* on the event loop while the file changes under them.                    *)
(*                                                                         *)
(* On top of the store: the chat endpoint of backend/main.py (select the   *)
(* context, await the generation backend, extract and merge the links,     *)
(* respond), the rule-based backend of providers/rule_based.py, and the    *)
(* polling loop of HFReplicateProvider.answer (providers/hf_inference.py). *)
(***************************************************************************)
EXTENDS Integers, Sequences, FiniteSets, TLC

VARIABLES
    file,              \* portfolio.json on disk: exists, readable, content, mtime
    portfolio_cache,   \* _portfolio_cache: data, last_modified
    index_file,        \* pf.index on disk
    meta_file,         \* pf.meta.json on disk
    dense_retriever,   \* _dense_retriever: None or a constructed DenseRetriever
    enable_rag,        \* the ENABLE_RAG environment variable
    lastCall,          \* observation: the last API call and what it did
    since,             \* observation: reads since the last advancing rewrite
    dense_failed,      \* observation: a dense_context call found the retriever unavailable
    link_in,           \* extract_links: the context passed in
    link_out,          \* extract_links: the list returned
    procs,             \* requests inside load_portfolio / reload_portfolio, statement by statement
    loaded_at,         \* observation: the mtime under which the cached document was read
    constructor_runs,  \* observation: how often DenseRetriever() has been called
    chat,              \* a POST /api/chat request in flight: its locals and its response
    poll               \* a call of HFReplicateProvider.answer: its position and locals

vars == << file, portfolio_cache, index_file, meta_file, dense_retriever,
           enable_rag, lastCall, since, dense_failed, link_in, link_out,
           procs, loaded_at, constructor_runs, chat, poll >>

-----------------------------------------------------------------------------
(* Bounds *)

MaxTime == 2
MaxHits == 1
MaxRecords == 2
MaxConstructions == 2
NumRequests == 2

-----------------------------------------------------------------------------
(* JSON values *)

JNull == [t |-> "null", k |-> {}, v |-> <<>>]
None == JNull
JStr(s) == [t |-> "str", k |-> {}, v |-> s]
JList(s) == [t |-> "list", k |-> {}, v |-> s]
JDict(f) == [t |-> "dict", k |-> DOMAIN f, v |-> f]
EmptyDict == [t |-> "dict", k |-> {}, v |-> <<>>]
EmptyList == JList(<<>>)

IsDict(j) == j.t = "dict"
IsList(j) == j.t = "list"
HasKey(j, key) == key \in j.k

\* dict.get(key, default)
Get(j, key, default) == IF HasKey(j, key) THEN j.v[key] ELSE default

-----------------------------------------------------------------------------
(* Context strings *)

JsonDumps(j) == [kind |-> "json", val |-> j, toks |-> <<>>]
Text(pieces) == [kind |-> "text", val |-> JNull, toks |-> pieces]
EmptyString == Text(<<>>)

\* bool(s) of a string
Truthy(ctx) == ctx # EmptyString

-----------------------------------------------------------------------------
(* Portfolio documents the file may hold *)

ProjAlpha == JDict([name |-> "Alpha", repo |-> "u1", demo |-> "u2"])
ProjBeta == JDict([name |-> "Beta", repo |-> "u1"])
SkillPy == JDict([name |-> "Python", level |-> "expert"])
EduMS == JDict([degree |-> "MS"])
ExpEng == JDict([role |-> "Engineer"])
CertAWS == JDict([name |-> "AWS", url |-> "u3"])

DocA ==
    JDict([about |-> JStr("bio"),
           projects |-> JList(<<ProjAlpha, ProjBeta>>),
           skills |-> JList(<<SkillPy>>),
           education |-> JList(<<EduMS>>),
           certifications |-> JList(<<CertAWS>>)])

DocB ==
    JDict([projects |-> JList(<<ProjBeta>>),
           experience |-> JList(<<ExpEng>>)])

DocList == JList(<<ProjAlpha>>)

\* What portfolio.json may contain: two documents, a top-level list, the
\* literal null, and text that is not JSON.
ValidContents == {"docA", "docB", "list", "null"}
Contents == ValidContents \cup {"corrupt"}
DocContents == {"docA", "docB"}

\* json.load(f): the value, for content that parses
JsonLoad(content) ==
    CASE content = "docA" -> DocA
      [] content = "docB" -> DocB
      [] content = "list" -> DocList
      [] content = "null" -> JNull

Parses(content) == content \in ValidContents

-----------------------------------------------------------------------------
(* Portfolio Store *)

MissingFile == [exists |-> FALSE, readable |-> TRUE, content |-> "corrupt", mtime |-> 0]

Times == 0..MaxTime

Files ==
    {MissingFile} \cup
    [exists : {TRUE}, readable : BOOLEAN, content : Contents, mtime : Times]

EmptyCache == [data |-> None, last_modified |-> 0]

\* the reload test taking any other mtime, earlier ones too, for a change
NeedsReload_AnyChange(c, f) == c.data = None \/ f.mtime # c.last_modified

\* The reload test of load_portfolio
NeedsReload(c, f) == c.data = None \/ f.mtime > c.last_modified

\* load_portfolio that stores the timestamp before it parses the file, so
\* that a parse error leaves the new timestamp behind
LoadPortfolio_StampOnError(c, f) ==
    IF ~f.exists
    THEN [ret |-> EmptyDict, cache |-> c, reads |-> 0, failed |-> TRUE]
    ELSE IF NeedsReload(c, f)
    THEN IF ~f.readable
         THEN [ret |-> EmptyDict, cache |-> c, reads |-> 0, failed |-> TRUE]
         ELSE IF ~Parses(f.content)
         THEN [ret |-> EmptyDict, cache |-> [c EXCEPT !.last_modified = f.mtime],
               reads |-> 1, failed |-> TRUE]
         ELSE [ret |-> JsonLoad(f.content),
               cache |-> [data |-> JsonLoad(f.content),
                          last_modified |-> f.mtime],
               reads |-> 1, failed |-> FALSE]
    ELSE [ret |-> c.data, cache |-> c, reads |-> 0, failed |-> FALSE]

\* load_portfolio whose except clause hands back the cached document
LoadPortfolio_StaleOnError(c, f) ==
    IF ~f.exists
    THEN [ret |-> c.data, cache |-> c, reads |-> 0, failed |-> TRUE]
    ELSE IF NeedsReload(c, f)
    THEN IF ~f.readable
         THEN [ret |-> c.data, cache |-> c, reads |-> 0, failed |-> TRUE]
         ELSE IF ~Parses(f.content)
         THEN [ret |-> c.data, cache |-> c, reads |-> 1, failed |-> TRUE]
         ELSE [ret |-> JsonLoad(f.content),
               cache |-> [data |-> JsonLoad(f.content),
                          last_modified |-> f.mtime],
               reads |-> 1, failed |-> FALSE]
    ELSE [ret |-> c.data, cache |-> c, reads |-> 0, failed |-> FALSE]

\* load_portfolio on cache c and file f: the value returned, the cache
\* afterwards, the number of times the file's content was read, and whether
\* the except clause ran.  stat() fails on a missing file, open() on an
\* unreadable one, json.load on text that is not JSON; each failure leaves
\* the cache as it was and returns {}.
LoadPortfolio(c, f) ==
    IF ~f.exists
    THEN [ret |-> EmptyDict, cache |-> c, reads |-> 0, failed |-> TRUE]
    ELSE IF NeedsReload(c, f)
    THEN IF ~f.readable
         THEN [ret |-> EmptyDict, cache |-> c, reads |-> 0, failed |-> TRUE]
         ELSE IF ~Parses(f.content)
         THEN [ret |-> EmptyDict, cache |-> c, reads |-> 1, failed |-> TRUE]
         ELSE [ret |-> JsonLoad(f.content),
               cache |-> [data |-> JsonLoad(f.content),
                          last_modified |-> f.mtime],
               reads |-> 1, failed |-> FALSE]
    ELSE [ret |-> c.data, cache |-> c, reads |-> 0, failed |-> FALSE]

\* reload_portfolio: reset the timestamp to 0, then load_portfolio
ReloadPortfolio(c, f) == LoadPortfolio([c EXCEPT !.last_modified = 0], f)

-----------------------------------------------------------------------------
(* Strings the code inspects, as sequences of characters *)

LowerOf ==
    "A" :> "a" @@ "B" :> "b" @@ "C" :> "c" @@ "D" :> "d" @@ "E" :> "e" @@
    "F" :> "f" @@ "G" :> "g" @@ "H" :> "h" @@ "I" :> "i" @@ "J" :> "j" @@
    "K" :> "k" @@ "L" :> "l" @@ "M" :> "m" @@ "N" :> "n" @@ "O" :> "o" @@
    "P" :> "p" @@ "Q" :> "q" @@ "R" :> "r" @@ "S" :> "s" @@ "T" :> "t" @@
    "U" :> "u" @@ "V" :> "v" @@ "W" :> "w" @@ "X" :> "x" @@ "Y" :> "y" @@
    "Z" :> "z"

\* str.lower()
Lower(s) ==
    [i \in 1..Len(s) |-> IF s[i] \in DOMAIN LowerOf THEN LowerOf[s[i]] ELSE s[i]]

\* `word in q`
Contains(q, word) ==
    \E i \in 1..(Len(q) - Len(word) + 1) : SubSeq(q, i, i + Len(word) - 1) = word

\* any(word in q for word in words)
AnyIn(words, q) == \E n \in 1..Len(words) : Contains(q, words[n])

ProjectsKeywords ==
    << <<"p", "r", "o", "j", "e", "c", "t">>,
       <<"b", "u", "i", "l", "t">>,
       <<"d", "e", "v", "e", "l", "o", "p">> >>
SkillsKeywords ==
    << <<"s", "t", "a", "c", "k">>,
       <<"s", "k", "i", "l", "l">>,
       <<"t", "e", "c", "h">>,
       <<"l", "a", "n", "g", "u", "a", "g", "e">>,
       <<"f", "r", "a", "m", "e", "w", "o", "r", "k">> >>
ExperienceKeywords ==
    << <<"w", "o", "r", "k">>,
       <<"j", "o", "b">>,
       <<"c", "o", "m", "p", "a", "n", "y">>,
       <<"e", "x", "p", "e", "r", "i", "e", "n", "c", "e">>,
       <<"r", "o", "l", "e">> >>
EducationKeywords ==
    << <<"d", "e", "g", "r", "e", "e">>,
       <<"u", "n", "i", "v", "e", "r", "s", "i", "t", "y">>,
       <<"e", "d", "u", "c", "a", "t", "i", "o", "n">>,
       <<"s", "t", "u", "d", "y">>,
       <<"c", "o", "l", "l", "e", "g", "e">> >>
CertificationsKeywords ==
    << <<"c", "e", "r", "t">>,
       <<"c", "e", "r", "t", "i", "f", "i", "c", "a", "t", "i", "o", "n">>,
       <<"c", "e", "r", "t", "i", "f", "i", "e", "d">> >>

\* Questions a request may carry: "", "hi", "Projects", "skills built",
\* "framework", "my job", "STUDY", "cert"
Questions ==
    { <<>>,
      <<"h", "i">>,
      <<"P", "r", "o", "j", "e", "c", "t", "s">>,
      <<"s", "k", "i", "l", "l", "s", " ", "b", "u", "i", "l", "t">>,
      <<"f", "r", "a", "m", "e", "w", "o", "r", "k">>,
      <<"m", "y", " ", "j", "o", "b">>,
      <<"S", "T", "U", "D", "Y">>,
      <<"c", "e", "r", "t">> }

\* section: None, the five known hints, and a hint in the wrong case
NoSection == "<None>"
KnownSections == {"PROJECTS", "SKILLS", "EXPERIENCE", "EDUCATION", "CERTIFICATIONS"}
Sections == KnownSections \cup {NoSection, "education"}

\* The document key of a known section hint
KeyOf(section) ==
    CASE section = "PROJECTS" -> "projects"
      [] section = "SKILLS" -> "skills"
      [] section = "EXPERIENCE" -> "experience"
      [] section = "EDUCATION" -> "education"
      [] section = "CERTIFICATIONS" -> "certifications"

-----------------------------------------------------------------------------
(* Keyword Router *)

WholeDocument == "<all>"

\* The if-chain with the skills branch written before the projects branch
Route_SkillsFirst(section, q) ==
    IF section = "SKILLS" \/ AnyIn(SkillsKeywords, q) THEN "skills"
    ELSE IF section = "PROJECTS" \/ AnyIn(ProjectsKeywords, q) THEN "projects"
    ELSE IF section = "EXPERIENCE" \/ AnyIn(ExperienceKeywords, q) THEN "experience"
    ELSE IF section = "EDUCATION" \/ AnyIn(EducationKeywords, q) THEN "education"
    ELSE IF section = "CERTIFICATIONS" \/ AnyIn(CertificationsKeywords, q)
         THEN "certifications"
    ELSE WholeDocument

\* The if-chain whose last branch is taken without its test, the default
\* return never reached
Route_NoDefault(section, q) ==
    IF section = "PROJECTS" \/ AnyIn(ProjectsKeywords, q) THEN "projects"
    ELSE IF section = "SKILLS" \/ AnyIn(SkillsKeywords, q) THEN "skills"
    ELSE IF section = "EXPERIENCE" \/ AnyIn(ExperienceKeywords, q) THEN "experience"
    ELSE IF section = "EDUCATION" \/ AnyIn(EducationKeywords, q) THEN "education"
    ELSE "certifications"

\* The if-chain of keyword_context: the key of the section it serializes,
\* for hint `section` and lower-cased question q
Route(section, q) ==
    IF section = "PROJECTS" \/ AnyIn(ProjectsKeywords, q) THEN "projects"
    ELSE IF section = "SKILLS" \/ AnyIn(SkillsKeywords, q) THEN "skills"
    ELSE IF section = "EXPERIENCE" \/ AnyIn(ExperienceKeywords, q) THEN "experience"
    ELSE IF section = "EDUCATION" \/ AnyIn(EducationKeywords, q) THEN "education"
    ELSE IF section = "CERTIFICATIONS" \/ AnyIn(CertificationsKeywords, q)
         THEN "certifications"
    ELSE WholeDocument

\* The return statements of keyword_context, for the outcome ld of its
\* load_portfolio call and the routed key: portfolio_data.get raises
\* AttributeError when the document is not a dict
Serialize(ld, key) ==
    IF key = WholeDocument
    THEN [ret |-> JsonDumps(ld.ret), raised |-> FALSE, cache |-> ld.cache,
          reads |-> ld.reads, failed |-> ld.failed]
    ELSE IF ~IsDict(ld.ret)
    THEN [ret |-> EmptyString, raised |-> TRUE, cache |-> ld.cache,
          reads |-> ld.reads, failed |-> ld.failed]
    ELSE [ret |-> JsonDumps(Get(ld.ret, key, EmptyList)), raised |-> FALSE,
          cache |-> ld.cache, reads |-> ld.reads, failed |-> ld.failed]

\* keyword_context(section, question) on cache c and file f
KeywordContext(c, f, section, question) ==
    Serialize(LoadPortfolio(c, f), Route(section, Lower(question)))

-----------------------------------------------------------------------------
(* Dense Retriever *)

\* pf.meta.json as written by the index builder: a list of (id, text) pairs
ChunksA == << <<"about", "About: bio">>, <<"projects:0", "Project: Alpha">> >>
IndexFiles == {"absent", "corrupt", "valid"}
ValidMetas == {"metaA"}
MetaFiles == {"absent", "corrupt"} \cup ValidMetas

MetaLoad(meta) ==
    CASE meta = "metaA" -> ChunksA

NoRetriever == [built |-> FALSE, chunks |-> <<>>]

\* DenseRetriever.__init__ succeeds when the imports and the embedding model
\* load (deps), faiss reads the index file and the metadata parses
ConstructOk(idx, meta, deps) == deps /\ idx = "valid" /\ meta \in ValidMetas

\* What index.search returns: positions (-1 is faiss's "no result" marker, a
\* position >= len(chunks) comes from an index built for other metadata), or
\* an exception from encode/search
Positions == -1..2
Hits == UNION {[1..n -> Positions] : n \in 0..MaxHits}
Oracles == [raises : {FALSE}, indices : Hits] \cup {[raises |-> TRUE, indices |-> <<>>]}

\* "\n\n".join(texts); an empty text adds no characters
RECURSIVE Join(_)
Join(texts) ==
    IF texts = <<>> THEN <<>>
    ELSE IF Len(texts) = 1 THEN (IF texts[1] = "" THEN <<>> ELSE <<texts[1]>>)
    ELSE (IF texts[1] = "" THEN <<>> ELSE <<texts[1]>>) \o <<"\n\n">> \o Join(Tail(texts))

\* chunks[idx] of a Python list: a negative idx counts from the end
PyIndexOk(chunks, idx) == IF idx >= 0 THEN idx < Len(chunks) ELSE -idx <= Len(chunks)
PyIndex(chunks, idx) == IF idx >= 0 THEN chunks[idx + 1] ELSE chunks[Len(chunks) + idx + 1]

\* The loop of DenseRetriever.search over the returned positions
RECURSIVE Selected(_, _)
Selected(chunks, indices) ==
    IF indices = <<>> THEN <<>>
    ELSE IF indices[1] < Len(chunks)
    THEN <<PyIndex(chunks, indices[1])[2]>> \o Selected(chunks, Tail(indices))
    ELSE Selected(chunks, Tail(indices))

SearchRaises(chunks, oracle) ==
    \/ oracle.raises
    \/ \E i \in 1..Len(oracle.indices) :
          oracle.indices[i] < Len(chunks) /\ ~PyIndexOk(chunks, oracle.indices[i])

\* DenseRetriever.search, when it does not raise
Search(chunks, oracle) == Text(Join(Selected(chunks, oracle.indices)))

\* dense_context that skips the test for the artifact files once built
DenseContext_NoExistsCheck(retr, idx, meta, deps, oracle) ==
    IF ~retr.built /\ (idx = "absent" \/ meta = "absent")
    THEN [ret |-> EmptyString, retr |-> retr, attempted |-> FALSE,
          searched |-> FALSE, unavailable |-> TRUE]
    ELSE IF ~retr.built /\ ~ConstructOk(idx, meta, deps)
    THEN [ret |-> EmptyString, retr |-> retr, attempted |-> TRUE,
          searched |-> FALSE, unavailable |-> TRUE]
    ELSE LET r == IF retr.built THEN retr
                  ELSE [built |-> TRUE, chunks |-> MetaLoad(meta)]
         IN  [ret |-> IF SearchRaises(r.chunks, oracle) THEN EmptyString
                      ELSE Search(r.chunks, oracle),
              retr |-> r, attempted |-> ~retr.built,
              searched |-> TRUE, unavailable |-> FALSE]

\* dense_context whose except clause around search returns the error message
DenseContext_SearchErrorText(retr, idx, meta, deps, oracle) ==
    IF idx = "absent" \/ meta = "absent"
    THEN [ret |-> EmptyString, retr |-> retr, attempted |-> FALSE,
          searched |-> FALSE, unavailable |-> TRUE]
    ELSE IF ~retr.built /\ ~ConstructOk(idx, meta, deps)
    THEN [ret |-> EmptyString, retr |-> retr, attempted |-> TRUE,
          searched |-> FALSE, unavailable |-> TRUE]
    ELSE LET r == IF retr.built THEN retr
                  ELSE [built |-> TRUE, chunks |-> MetaLoad(meta)]
         IN  [ret |-> IF SearchRaises(r.chunks, oracle)
                      THEN Text(<<"Vector search error">>)
                      ELSE Search(r.chunks, oracle),
              retr |-> r, attempted |-> ~retr.built,
              searched |-> TRUE, unavailable |-> FALSE]

\* dense_context(question): the string returned, _dense_retriever afterwards,
\* whether DenseRetriever() was called, whether search was called, and
\* whether the call found the retriever unavailable (an artifact file absent
\* or the constructor raising)
DenseContext(retr, idx, meta, deps, oracle) ==
    IF idx = "absent" \/ meta = "absent"
    THEN [ret |-> EmptyString, retr |-> retr, attempted |-> FALSE,
          searched |-> FALSE, unavailable |-> TRUE]
    ELSE IF ~retr.built /\ ~ConstructOk(idx, meta, deps)
    THEN [ret |-> EmptyString, retr |-> retr, attempted |-> TRUE,
          searched |-> FALSE, unavailable |-> TRUE]
    ELSE LET r == IF retr.built THEN retr
                  ELSE [built |-> TRUE, chunks |-> MetaLoad(meta)]
         IN  [ret |-> IF SearchRaises(r.chunks, oracle) THEN EmptyString
                      ELSE Search(r.chunks, oracle),
              retr |-> r, attempted |-> ~retr.built,
              searched |-> TRUE, unavailable |-> FALSE]

-----------------------------------------------------------------------------
(* Context Selector *)

\* ENABLE_RAG in the environment: unset, "true", "True", "false"
EnvUnset == [set |-> FALSE, val |-> <<>>]
EnvValues ==
    { EnvUnset,
      [set |-> TRUE, val |-> <<"t", "r", "u", "e">>],
      [set |-> TRUE, val |-> <<"T", "r", "u", "e">>],
      [set |-> TRUE, val |-> <<"f", "a", "l", "s", "e">>] }

\* os.getenv(name, default)
GetEnv(env, default) == IF env.set THEN env.val ELSE default

\* os.getenv("ENABLE_RAG", "false").lower() == "true"
RagEnabled(env) ==
    Lower(GetEnv(env, <<"f", "a", "l", "s", "e">>)) = <<"t", "r", "u", "e">>

\* What select_context does when ENABLE_RAG is off: no dense_context call
NotTried(retr) ==
    [ret |-> EmptyString, retr |-> retr, attempted |-> FALSE,
     searched |-> FALSE, unavailable |-> FALSE]

\* The choice of select_context between the outcome d of dense_context and
\* the outcome kw of keyword_context, made without looking at d.ret
Choose_NoFallback(c, enabled, d, kw) ==
    IF enabled
    THEN [ret |-> d.ret, raised |-> FALSE, cache |-> c, reads |-> 0,
          failed |-> FALSE, retr |-> d.retr, attempted |-> d.attempted,
          searched |-> d.searched, unavailable |-> d.unavailable, dense |-> TRUE]
    ELSE [ret |-> kw.ret, raised |-> kw.raised, cache |-> kw.cache,
          reads |-> kw.reads, failed |-> kw.failed, retr |-> d.retr,
          attempted |-> d.attempted, searched |-> d.searched,
          unavailable |-> d.unavailable, dense |-> FALSE]

\* The choice of select_context between the outcome d of dense_context and
\* the outcome kw of keyword_context (which is only called on the fallback
\* path): the vector context when the flag is on and the string is non-empty
Choose(c, enabled, d, kw) ==
    IF enabled /\ Truthy(d.ret)
    THEN [ret |-> d.ret, raised |-> FALSE, cache |-> c, reads |-> 0,
          failed |-> FALSE, retr |-> d.retr, attempted |-> d.attempted,
          searched |-> d.searched, unavailable |-> d.unavailable, dense |-> TRUE]
    ELSE [ret |-> kw.ret, raised |-> kw.raised, cache |-> kw.cache,
          reads |-> kw.reads, failed |-> kw.failed, retr |-> d.retr,
          attempted |-> d.attempted, searched |-> d.searched,
          unavailable |-> d.unavailable, dense |-> FALSE]

\* select_context(section, question)
SelectContext(c, f, retr, idx, meta, env, section, question, deps, oracle) ==
    Choose(c, RagEnabled(env),
           IF RagEnabled(env) THEN DenseContext(retr, idx, meta, deps, oracle)
           ELSE NotTried(retr),
           KeywordContext(c, f, section, question))

-----------------------------------------------------------------------------
(* Link Extractor *)

LinkCap == 4

\* the slice left out: every link is returned
Take_All(seq, n) == seq

\* links[:n]
Take(seq, n) == SubSeq(seq, 1, IF Len(seq) < n THEN Len(seq) ELSE n)

\* the links of an item, with the url link emitted for any record that has a
\* url, labelled "Project" when there is no name
ItemLinks_UrlWithoutName(item) ==
    IF ~IsDict(item) THEN <<>>
    ELSE (IF HasKey(item, "repo")
          THEN <<[label |-> <<Get(item, "name", "Project"), " - GitHub">>,
                  url |-> item.v["repo"]]>>
          ELSE <<>>)
         \o
         (IF HasKey(item, "demo")
          THEN <<[label |-> <<Get(item, "name", "Project"), " - Live Demo">>,
                  url |-> item.v["demo"]]>>
          ELSE <<>>)
         \o
         (IF HasKey(item, "url")
          THEN <<[label |-> <<Get(item, "name", "Project")>>, url |-> item.v["url"]]>>
          ELSE <<>>)

\* The links one list item contributes; a label is the pieces of its f-string
ItemLinks(item) ==
    IF ~IsDict(item) THEN <<>>
    ELSE (IF HasKey(item, "repo")
          THEN <<[label |-> <<Get(item, "name", "Project"), " - GitHub">>,
                  url |-> item.v["repo"]]>>
          ELSE <<>>)
         \o
         (IF HasKey(item, "demo")
          THEN <<[label |-> <<Get(item, "name", "Project"), " - Live Demo">>,
                  url |-> item.v["demo"]]>>
          ELSE <<>>)
         \o
         (IF HasKey(item, "url") /\ HasKey(item, "name")
          THEN <<[label |-> <<item.v["name"]>>, url |-> item.v["url"]]>>
          ELSE <<>>)

RECURSIVE AllLinks(_)
AllLinks(items) ==
    IF items = <<>> THEN <<>> ELSE ItemLinks(items[1]) \o AllLinks(Tail(items))

\* json.loads(context) succeeds on the output of json.dumps only
LoadsOk(ctx) == ctx.kind = "json"

\* extract_links without its try: the exception of json.loads leaves it
Uncaught_NoHandler(ctx) == ~LoadsOk(ctx)

\* The exceptions that leave extract_links: the try spans the whole body and
\* the handler catches Exception, so none does
Uncaught(ctx) == FALSE

\* extract_links that looks for the records inside a mapping's "projects"
ExtractLinks_Descends(ctx) ==
    IF ~LoadsOk(ctx) THEN <<>>
    ELSE IF IsList(ctx.val) THEN Take(AllLinks(ctx.val.v), LinkCap)
    ELSE IF IsDict(ctx.val) /\ HasKey(ctx.val, "projects")
    THEN Take(AllLinks(ctx.val.v["projects"].v), LinkCap)
    ELSE <<>>

\* extract_links(context)
ExtractLinks(ctx) ==
    IF ~LoadsOk(ctx) THEN <<>>
    ELSE IF IsList(ctx.val) THEN Take(AllLinks(ctx.val.v), LinkCap)
    ELSE <<>>

\* Records a context may carry: any subset of the link-bearing fields
LinkFields == {"name", "repo", "demo", "url"}
FieldValues(field) ==
    CASE field = "name" -> {"A"}
      [] field = "repo" -> {"u1", "u2"}
      [] field = "demo" -> {"u1"}
      [] field = "url" -> {"u1"}
LinkRecords ==
    { JDict(f) : f \in { g \in UNION {[D -> {"A", "u1", "u2"}] : D \in SUBSET LinkFields} :
                           \A field \in DOMAIN g : g[field] \in FieldValues(field) } }
LinkItems == LinkRecords \cup {JStr("note")}
LinkContexts ==
    { JsonDumps(JList(items)) : items \in UNION {[1..n -> LinkItems] : n \in 0..MaxRecords} }
    \cup { JsonDumps(DocA), JsonDumps(JNull), Text(<<"About: bio">>), EmptyString }

-----------------------------------------------------------------------------
(* load_portfolio and reload_portfolio, statement by statement *)

\* The requests in flight; each is a coroutine of the one event loop
Procs == 1..NumRequests

\* A request outside the store.  Inside a call it carries pc, the function
\* called, the local current_mtime, the value json.load gave (read says
\* that it did), and the document cached when the call began; after the
\* call, the value returned and whether the except clause ran
IdleProc ==
    [pc |-> "idle", op |-> "none", mtime |-> 0, doc |-> None, ret |-> None,
     prev |-> None, read |-> FALSE, failed |-> FALSE]

\* The request is between the first and the last statement of its call
OnLoop(p) == procs[p].pc \notin {"idle", "done"}

\* The handlers run in a pool of threads: any request may take its next step
MayRun_ThreadPool(p) == TRUE

\* The handlers are coroutines (async def) and the store functions hold no
\* await: a request that entered a call keeps the event loop until the call
\* returns
MayRun(p) == \A q \in Procs \ {p} : ~OnLoop(q)

\* the except clause: return {}
Except(p) ==
    [procs EXCEPT ![p] = [IdleProc EXCEPT !.pc = "done", !.ret = EmptyDict,
                                        !.failed = TRUE]]

\* a handler calls load_portfolio() or reload_portfolio()
Begin(p) ==
    \E op \in {"load", "reload"} :
        /\ procs[p].pc = "idle"
        /\ MayRun(p)
        /\ procs' = [procs EXCEPT ![p] =
                        [IdleProc EXCEPT !.pc = IF op = "reload" THEN "reset" ELSE "stat",
                                         !.op = op, !.prev = portfolio_cache.data]]
        /\ UNCHANGED << chat, poll, file, portfolio_cache, index_file, meta_file, dense_retriever,
                        enable_rag, lastCall, since, dense_failed, link_in, link_out,
                        loaded_at, constructor_runs >>

\* reload_portfolio: _portfolio_cache["last_modified"] = 0
Reset(p) ==
    /\ procs[p].pc = "reset"
    /\ MayRun(p)
    /\ portfolio_cache' = [portfolio_cache EXCEPT !.last_modified = 0]
    /\ procs' = [procs EXCEPT ![p].pc = "stat"]
    /\ UNCHANGED << chat, poll, file, index_file, meta_file, dense_retriever, enable_rag,
                    lastCall, since, dense_failed, link_in, link_out,
                    loaded_at, constructor_runs >>

\* current_mtime = PORTFOLIO_PATH.stat().st_mtime
Stat(p) ==
    /\ procs[p].pc = "stat"
    /\ MayRun(p)
    /\ procs' = IF file.exists
                THEN [procs EXCEPT ![p].pc = "test", ![p].mtime = file.mtime]
                ELSE Except(p)
    /\ UNCHANGED << chat, poll, file, portfolio_cache, index_file, meta_file, dense_retriever,
                    enable_rag, lastCall, since, dense_failed, link_in, link_out,
                    loaded_at, constructor_runs >>

\* if _portfolio_cache["data"] is None or current_mtime > last_modified
Test(p) ==
    /\ procs[p].pc = "test"
    /\ MayRun(p)
    /\ procs' = [procs EXCEPT ![p].pc =
                    IF NeedsReload(portfolio_cache, procs[p]) THEN "read" ELSE "return"]
    /\ UNCHANGED << chat, poll, file, portfolio_cache, index_file, meta_file, dense_retriever,
                    enable_rag, lastCall, since, dense_failed, link_in, link_out,
                    loaded_at, constructor_runs >>

\* open(PORTFOLIO_PATH) and json.load(f)
Read(p) ==
    /\ procs[p].pc = "read"
    /\ MayRun(p)
    /\ procs' = IF file.exists /\ file.readable /\ Parses(file.content)
                THEN [procs EXCEPT ![p].pc = "store_data",
                                   ![p].doc = JsonLoad(file.content),
                                   ![p].read = TRUE]
                ELSE Except(p)
    /\ UNCHANGED << chat, poll, file, portfolio_cache, index_file, meta_file, dense_retriever,
                    enable_rag, lastCall, since, dense_failed, link_in, link_out,
                    loaded_at, constructor_runs >>

\* _portfolio_cache["data"] = (the value json.load returned)
StoreData(p) ==
    /\ procs[p].pc = "store_data"
    /\ MayRun(p)
    /\ portfolio_cache' = [portfolio_cache EXCEPT !.data = procs[p].doc]
    /\ loaded_at' = procs[p].mtime
    /\ procs' = [procs EXCEPT ![p].pc = "store_ts"]
    /\ UNCHANGED << chat, poll, file, index_file, meta_file, dense_retriever, enable_rag,
                    lastCall, since, dense_failed, link_in, link_out,
                    constructor_runs >>

\* _portfolio_cache["last_modified"] = current_mtime
StoreTs(p) ==
    /\ procs[p].pc = "store_ts"
    /\ MayRun(p)
    /\ portfolio_cache' = [portfolio_cache EXCEPT !.last_modified = procs[p].mtime]
    /\ procs' = [procs EXCEPT ![p].pc = "return"]
    /\ UNCHANGED << chat, poll, file, index_file, meta_file, dense_retriever, enable_rag,
                    lastCall, since, dense_failed, link_in, link_out,
                    loaded_at, constructor_runs >>

\* return _portfolio_cache["data"]
ReturnData(p) ==
    /\ procs[p].pc = "return"
    /\ MayRun(p)
    /\ procs' = [procs EXCEPT ![p] = [IdleProc EXCEPT !.pc = "done",
                                                     !.ret = portfolio_cache.data]]
    /\ UNCHANGED << chat, poll, file, portfolio_cache, index_file, meta_file, dense_retriever,
                    enable_rag, lastCall, since, dense_failed, link_in, link_out,
                    loaded_at, constructor_runs >>

\* the handler, holding the value returned, answers its request
Respond(p) ==
    /\ procs[p].pc = "done"
    /\ procs' = [procs EXCEPT ![p] = IdleProc]
    /\ UNCHANGED << chat, poll, file, portfolio_cache, index_file, meta_file, dense_retriever,
                    enable_rag, lastCall, since, dense_failed, link_in, link_out,
                    loaded_at, constructor_runs >>

-----------------------------------------------------------------------------
(* Observations *)

NoPrior == [op |-> "none", ret |-> JNull, reads |-> 0, failed |-> FALSE]
NoOracle == [raises |-> FALSE, indices |-> <<>>]

NoCall ==
    [op |-> "none", section |-> NoSection, question |-> <<>>, deps |-> TRUE,
     oracle |-> NoOracle, ret |-> JNull, raised |-> FALSE, reads |-> 0,
     failed |-> FALSE, pre |-> EmptyCache, preRetr |-> NoRetriever,
     attempted |-> FALSE, searched |-> FALSE, unavailable |-> FALSE,
     dense |-> FALSE, wasFailed |-> FALSE, prior |-> NoPrior]

NoChange == [event |-> "none", reads |-> 0]

\* the previous call, when it was a store call and nothing happened since
PriorOf(call) ==
    IF call.op \in {"load", "reload"}
    THEN [op |-> call.op, ret |-> call.ret, reads |-> call.reads, failed |-> call.failed]
    ELSE NoPrior

\* reads since the last advancing rewrite, counted up to 2
Count(ch, reads) ==
    IF ch.event = "none" THEN ch
    ELSE [ch EXCEPT !.reads = IF @ + reads > 2 THEN 2 ELSE @ + reads]

\* the mtime the cached document was read under, after a load_portfolio
\* with outcome r on file f
LoadedAt(r, f, old) == IF r.reads = 1 /\ ~r.failed THEN f.mtime ELSE old

\* calls of DenseRetriever(), counted up to MaxConstructions
CountRun(n, attempted) ==
    IF attempted /\ n < MaxConstructions THEN n + 1 ELSE n

\* The outcomes of the steps inside dense_context that the process does not
\* decide: whether the constructor's imports and model load succeed, and
\* what index.search returns.  With ENABLE_RAG unset nothing is drawn.
DenseOutcomes(env) ==
    IF env.set THEN BOOLEAN \X Oracles ELSE {<< TRUE, NoOracle >>}

-----------------------------------------------------------------------------
(* The generation backends *)

\* The keyword lists of RuleBasedProvider.answer
RuleSkillsWords ==
    << <<"s", "k", "i", "l", "l">>,
       <<"t", "e", "c", "h">>,
       <<"s", "t", "a", "c", "k">>,
       <<"t", "e", "c", "h", "n", "o", "l", "o", "g", "y">> >>
RuleProjectsWords ==
    << <<"p", "r", "o", "j", "e", "c", "t">>,
       <<"b", "u", "i", "l", "t">>,
       <<"d", "e", "v", "e", "l", "o", "p">>,
       <<"w", "o", "r", "k", " ", "o", "n">> >>
RuleExperienceWords ==
    << <<"e", "x", "p", "e", "r", "i", "e", "n", "c", "e">>,
       <<"w", "o", "r", "k">>,
       <<"j", "o", "b">>,
       <<"c", "o", "m", "p", "a", "n", "y">> >>
RuleEducationWords ==
    << <<"e", "d", "u", "c", "a", "t", "i", "o", "n">>,
       <<"d", "e", "g", "r", "e", "e">>,
       <<"u", "n", "i", "v", "e", "r", "s", "i", "t", "y">>,
       <<"s", "t", "u", "d", "y">> >>
RuleCertificationsWords ==
    << <<"c", "e", "r", "t", "i", "f", "i", "c", "a", "t", "i", "o", "n">>,
       <<"c", "e", "r", "t", "i", "f", "i", "e", "d">>,
       <<"c", "e", "r", "t">> >>

\* The if-chain of RuleBasedProvider.answer over the lower-cased question
RuleBranch(q) ==
    IF AnyIn(RuleSkillsWords, q) THEN "skills"
    ELSE IF AnyIn(RuleProjectsWords, q) THEN "projects"
    ELSE IF AnyIn(RuleExperienceWords, q) THEN "experience"
    ELSE IF AnyIn(RuleEducationWords, q) THEN "education"
    ELSE IF AnyIn(RuleCertificationsWords, q) THEN "certifications"
    ELSE "overview"

\* try: ctx_data = json.loads(context) / except: ctx_data = {}
CtxData(ctx) == IF LoadsOk(ctx) THEN ctx.val ELSE EmptyDict

\* `not x` of a JSON value
Falsy(j) == j \in {JNull, EmptyList, EmptyDict, JStr("")}

\* What a backend's answer() hands to the handler: an exception, or an
\* answer text with links; failed says that the text reports a failure of
\* the backend
BackendRaised == [raised |-> TRUE, answer |-> JNull, links |-> <<>>, failed |-> TRUE]
BackendText(answer, links, failed) ==
    [raised |-> FALSE, answer |-> answer, links |-> links, failed |-> failed]

\* An answer text, as the pieces of its f-string
Say(pieces) == JStr(pieces)

\* The links of _answer_projects for one project
RuleProjectLinks(proj) ==
    (IF Get(proj, "repo", "") # ""
     THEN <<[label |-> <<Get(proj, "name", "Unnamed Project"), " - GitHub">>,
             url |-> proj.v["repo"]]>>
     ELSE <<>>)
    \o
    (IF Get(proj, "demo", "") # ""
     THEN <<[label |-> <<Get(proj, "name", "Unnamed Project"), " - Demo">>,
             url |-> proj.v["demo"]]>>
     ELSE <<>>)

\* The link of _answer_certifications for one certification
RuleCertLinks(cert) ==
    IF Get(cert, "url", "") # ""
    THEN <<[label |-> <<Get(cert, "name", "")>>, url |-> cert.v["url"]]>>
    ELSE <<>>

RECURSIVE RuleLinks(_, _)
RuleLinks(key, items) ==
    IF items = <<>> THEN <<>>
    ELSE (IF key = "projects" THEN RuleProjectLinks(items[1]) ELSE RuleCertLinks(items[1]))
         \o RuleLinks(key, Tail(items))

\* The items a section answer goes through: projects[:3], experience[:3],
\* every skill, education entry and certification
RuleItems(key, items) ==
    IF key \in {"projects", "experience"} THEN Take(items, 3) ELSE items

\* _answer_skills, _answer_projects, _answer_experience, _answer_education,
\* _answer_certifications on the parsed context: data.get raises
\* AttributeError unless data is a dict, and so does item.get on an item
\* that is not one
RuleSection(data, key) ==
    IF ~IsDict(data) THEN BackendRaised
    ELSE IF Falsy(Get(data, key, EmptyList))
    THEN BackendText(Say(<<"I don't have ", key, " information available.">>), <<>>, FALSE)
    ELSE IF ~IsList(data.v[key]) THEN BackendRaised
    ELSE IF \E i \in 1..Len(RuleItems(key, data.v[key].v)) :
                ~IsDict(RuleItems(key, data.v[key].v)[i])
    THEN BackendRaised
    ELSE BackendText(Say(<<"about my ", key>>),
                     IF key = "projects"
                     THEN Take(RuleLinks(key, RuleItems(key, data.v[key].v)), 4)
                     ELSE IF key = "certifications"
                     THEN Take(RuleLinks(key, RuleItems(key, data.v[key].v)), 3)
                     ELSE <<>>,
                     FALSE)

\* _answer_overview: the "about" text, or a summary of the section sizes
RuleOverview(data) ==
    IF ~IsDict(data) THEN BackendRaised
    ELSE IF ~Falsy(Get(data, "about", JStr("")))
    THEN BackendText(Get(data, "about", JStr("")), <<>>, FALSE)
    ELSE IF \E key \in {"skills", "projects", "experience"} :
                Get(data, key, EmptyList) = JNull
    THEN BackendRaised
    ELSE BackendText(Say(<<"I'm a professional">>), <<>>, FALSE)

\* RuleBasedProvider.answer(question, context)
RuleAnswer(question, ctx) ==
    IF RuleBranch(Lower(question)) = "overview" THEN RuleOverview(CtxData(ctx))
    ELSE RuleSection(CtxData(ctx), RuleBranch(Lower(question)))

\* The providers get_provider hands out: the rule-based one (also the
\* fallback when another cannot be constructed) and the ones that call a
\* model (Ollama, OpenAI, HuggingFace, Replicate)
Providers == {"rule_based", "model"}

\* What the model behind a provider does, which the process does not decide:
\* it generates a text, or the call fails (connection, timeout, HTTP status)
BackendOutcomes(provider) ==
    IF provider = "rule_based" THEN {"none"} ELSE {"generated", "failure"}

\* answer() of the providers that call a model: every failure is caught
\* inside answer and comes back as a warning text with no links
ModelAnswer(outcome) ==
    IF outcome = "generated" THEN BackendText(Say(<<"generated">>), <<>>, FALSE)
    ELSE BackendText(Say(<<"Error connecting">>), <<>>, TRUE)

\* await provider.answer(body.question, context)
ProviderAnswer(provider, outcome, question, ctx) ==
    IF provider = "rule_based" THEN RuleAnswer(question, ctx) ELSE ModelAnswer(outcome)


-----------------------------------------------------------------------------
(* The chat endpoint *)

ResponseCap == 4

\* The loop over all_links: a link is appended when its url is not in
\* seen_urls
RECURSIVE Unique(_, _)
Unique(links, seen_urls) ==
    IF links = <<>> THEN <<>>
    ELSE IF links[1].url \in seen_urls THEN Unique(Tail(links), seen_urls)
    ELSE <<links[1]>> \o Unique(Tail(links), seen_urls \cup {links[1].url})

\* the two lists joined and cut, without the loop that drops seen urls
MergeLinks_NoDedup(provider_links, context_links) ==
    Take(provider_links \o context_links, ResponseCap)

\* all_links = provider_links + context_links, the loop, unique_links[:4]
MergeLinks(provider_links, context_links) ==
    Take(Unique(provider_links \o context_links, {}), ResponseCap)

\* chips = [body.section] if body.section else ["Overview"]
Chips(section) == IF section = NoSection THEN <<"Overview">> ELSE <<section>>

\* A chat request: idle before it arrives; then its body, the provider
\* get_provider gave it, the local `context`, how often select_context
\* called load_portfolio and the document that call returned, the locals
\* answer_text, provider_links and context_links, and the response (200 with
\* answer, links and chips, or 500)
NoChat ==
    [pc |-> "idle", section |-> NoSection, question |-> <<>>, provider |-> "none",
     context |-> EmptyString, loads |-> 0, snapshot |-> None, dense |-> FALSE,
     backend_failed |-> FALSE, answer |-> JNull, provider_links |-> <<>>,
     context_links |-> <<>>, status |-> 0, links |-> <<>>, chips |-> <<>>]

\* What the requests ask
ChatSections == {NoSection, "PROJECTS"}
ChatQuestions ==
    { <<>>,
      <<"P", "r", "o", "j", "e", "c", "t", "s">>,
      <<"c", "e", "r", "t">> }

\* The handler calls select_context a second time for the links
LinksContext_Reselect(ch, c, f) == KeywordContext(c, f, ch.section, ch.question).ret

\* The context extract_links is given: the local `context` of the request
LinksContext(ch, c, f) == ch.context

\* context = select_context(body.section, body.question); an exception goes
\* to the handler's except clause, which answers 500
ChatSelect ==
    /\ chat.pc = "idle"
    /\ \E section \in ChatSections, question \in ChatQuestions, provider \in Providers :
         \E out \in DenseOutcomes(enable_rag) :
           \E r \in {SelectContext(portfolio_cache, file, dense_retriever, index_file,
                                    meta_file, enable_rag, section, question,
                                    out[1], out[2])} :
             /\ portfolio_cache' = r.cache
             /\ dense_retriever' = r.retr
             /\ dense_failed' = (dense_failed \/ r.unavailable)
             /\ loaded_at' = LoadedAt(r, file, loaded_at)
             /\ constructor_runs' = CountRun(constructor_runs, r.attempted)
             /\ chat' = [NoChat EXCEPT
                            !.pc = IF r.raised THEN "done" ELSE "await",
                            !.section = section, !.question = question,
                            !.provider = provider,
                            !.context = r.ret, !.dense = r.dense,
                            !.loads = IF r.dense THEN 0 ELSE 1,
                            !.snapshot = IF r.dense THEN None
                                         ELSE LoadPortfolio(portfolio_cache, file).ret,
                            !.status = IF r.raised THEN 500 ELSE 0]
    /\ UNCHANGED << file, index_file, meta_file, enable_rag, lastCall, since,
                    link_in, link_out, procs, poll >>

\* answer_text, provider_links = await provider.answer(body.question, context)
ChatAnswer ==
    /\ chat.pc = "await"
    /\ \E outcome \in BackendOutcomes(chat.provider) :
         \E a \in {ProviderAnswer(chat.provider, outcome, chat.question, chat.context)} :
           chat' = IF a.raised
                   THEN [chat EXCEPT !.pc = "done", !.status = 500,
                                     !.backend_failed = TRUE]
                   ELSE [chat EXCEPT !.pc = "merge", !.answer = a.answer,
                                     !.provider_links = a.links,
                                     !.backend_failed = a.failed]
    /\ UNCHANGED << file, portfolio_cache, index_file, meta_file, dense_retriever,
                    enable_rag, lastCall, since, dense_failed, link_in, link_out,
                    procs, loaded_at, constructor_runs, poll >>

\* context_links = extract_links(context), the merge, the chips and the
\* ChatResponse, whose answer must be a str
ChatRespond ==
    /\ chat.pc = "merge"
    /\ \E cl \in {ExtractLinks(LinksContext(chat, portfolio_cache, file))} :
         chat' = IF chat.answer.t = "str"
                 THEN [chat EXCEPT !.pc = "done", !.status = 200,
                                   !.context_links = cl,
                                   !.links = MergeLinks(chat.provider_links, cl),
                                   !.chips = Chips(chat.section)]
                 ELSE [chat EXCEPT !.pc = "done", !.status = 500, !.context_links = cl]
    /\ UNCHANGED << file, portfolio_cache, index_file, meta_file, dense_retriever,
                    enable_rag, lastCall, since, dense_failed, link_in, link_out,
                    procs, loaded_at, constructor_runs, poll >>

\* the response is sent
ChatReturn ==
    /\ chat.pc = "done"
    /\ chat' = NoChat
    /\ UNCHANGED << file, portfolio_cache, index_file, meta_file, dense_retriever,
                    enable_rag, lastCall, since, dense_failed, link_in, link_out,
                    procs, loaded_at, constructor_runs, poll >>

\* Another request runs while the chat request waits for its answer:
\* POST /api/reload
ReloadRequest ==
    /\ chat.pc \in {"idle", "await"}
    /\ \E r \in {ReloadPortfolio(portfolio_cache, file)} :
         /\ portfolio_cache' = r.cache
         /\ loaded_at' = LoadedAt(r, file, loaded_at)
    /\ UNCHANGED << file, index_file, meta_file, dense_retriever, enable_rag,
                    lastCall, since, dense_failed, link_in, link_out, procs,
                    constructor_runs, chat, poll >>

\* GET /api/sections and GET /api/health: load_portfolio
SectionsRequest ==
    /\ chat.pc \in {"idle", "await"}
    /\ \E r \in {LoadPortfolio(portfolio_cache, file)} :
         /\ portfolio_cache' = r.cache
         /\ loaded_at' = LoadedAt(r, file, loaded_at)
    /\ UNCHANGED << file, index_file, meta_file, dense_retriever, enable_rag,
                    lastCall, since, dense_failed, link_in, link_out, procs,
                    constructor_runs, chat, poll >>

\* Link lists a backend may hand back with its answer
BackendLink(url) == [label |-> <<"B", " - Demo">>, url |-> url]
BackendLinks ==
    { <<>>,
      <<BackendLink("u1")>>,
      <<BackendLink("u3"), BackendLink("u1")>>,
      <<BackendLink("u3"), BackendLink("u3")>>,
      <<BackendLink("u3"), BackendLink("u4"), BackendLink("u5")>> }

-----------------------------------------------------------------------------
(* HFReplicateProvider.answer: start a prediction, then poll for it *)

max_attempts == 60

\* What the Replicate API does with a request, which the process does not
\* decide.  The POST that starts the prediction: a prediction with its poll
\* url, an HTTP error status, a connection error or timeout of the client,
\* or a body without urls.get
StartOutcomes == {"created", "http401", "http429", "http500", "connect", "nourl"}

\* A GET of the prediction: a status (with the output, for "succeeded": a
\* list of strings, another value, or a list holding a non-string), an HTTP
\* error status, a connection error or timeout, or a body without a status
Statuses == {"starting", "processing", "succeeded", "failed", "cancelled"}
PollOutcomes ==
    {[kind |-> "status", status |-> s, output |-> "none"] :
        s \in Statuses \ {"succeeded"}}
    \cup {[kind |-> "status", status |-> "succeeded", output |-> o] :
            o \in {"strings", "value", "mixed"}}
    \cup {[kind |-> k, status |-> "none", output |-> "none"] :
            k \in {"http401", "http429", "http500", "connect", "nostatus"}}

\* The call before it is made: pc, the number of polls begun, the status
\* of the last poll, and what the call returned or raised
NoPoll ==
    [pc |-> "idle", attempts |-> 0, status |-> "none", text |-> "none",
     links |-> <<>>, raised |-> FALSE]

\* The two except clauses of answer: the text returned for an error
ErrorText(kind) ==
    CASE kind = "http401" -> "Invalid Replicate API token"
      [] kind = "http429" -> "Rate limit exceeded"
      [] kind = "http500" -> "Replicate API error"
      [] OTHER -> "Error connecting to Replicate"

\* return text, []
Returned(p, text) == [p EXCEPT !.pc = "returned", !.text = text, !.links = <<>>]

\* The errors that leave answer: the POST, the GETs and the handling of
\* their bodies are all inside the try, and its last handler catches
\* Exception, so none does
Escapes(kind) == FALSE

\* An error raised inside the try
Failed(p, kind) ==
    IF Escapes(kind) THEN [p EXCEPT !.pc = "raised", !.raised = TRUE]
    ELSE Returned(p, ErrorText(kind))

\* the loop `while True`
MoreAttempts_Forever(n) == TRUE

\* for _ in range(max_attempts): another iteration follows n of them
MoreAttempts(n) == n < max_attempts

\* answer is called: the prompt, the headers, the payload, and the POST
PollStart ==
    /\ poll.pc = "idle"
    /\ poll' = [poll EXCEPT !.pc = "post"]
    /\ UNCHANGED << file, portfolio_cache, index_file, meta_file, dense_retriever,
                    enable_rag, lastCall, since, dense_failed, link_in, link_out,
                    procs, loaded_at, constructor_runs, chat >>

\* response = await client.post(...); raise_for_status; prediction_url
PollPost ==
    /\ poll.pc = "post"
    /\ \E outcome \in StartOutcomes :
         poll' = IF outcome = "created"
                 THEN (IF MoreAttempts(0) THEN [poll EXCEPT !.pc = "sleep"]
                       ELSE Returned(poll, "Request timed out"))
                 ELSE Failed(poll, outcome)
    /\ UNCHANGED << file, portfolio_cache, index_file, meta_file, dense_retriever,
                    enable_rag, lastCall, since, dense_failed, link_in, link_out,
                    procs, loaded_at, constructor_runs, chat >>

\* an iteration begins: await asyncio.sleep(2)
PollSleep ==
    /\ poll.pc = "sleep"
    /\ poll' = [poll EXCEPT !.pc = "get", !.attempts = @ + 1]
    /\ UNCHANGED << file, portfolio_cache, index_file, meta_file, dense_retriever,
                    enable_rag, lastCall, since, dense_failed, link_in, link_out,
                    procs, loaded_at, constructor_runs, chat >>

\* poll_response = await client.get(...); raise_for_status; the test of the
\* status; the end of the loop
PollGet ==
    /\ poll.pc = "get"
    /\ \E outcome \in PollOutcomes :
         poll' = IF outcome.kind # "status"
                 THEN Failed(poll, outcome.kind)
                 ELSE IF outcome.status = "succeeded"
                 THEN (IF outcome.output = "mixed"
                       THEN Failed([poll EXCEPT !.status = outcome.status], "join")
                       ELSE Returned([poll EXCEPT !.status = outcome.status], "answer"))
                 ELSE IF outcome.status \in {"failed", "cancelled"}
                 THEN Returned([poll EXCEPT !.status = outcome.status],
                               "Replicate prediction failed")
                 ELSE IF MoreAttempts(poll.attempts)
                 THEN [poll EXCEPT !.pc = "sleep", !.status = outcome.status]
                 ELSE Returned([poll EXCEPT !.status = outcome.status],
                               "Request timed out")
    /\ UNCHANGED << file, portfolio_cache, index_file, meta_file, dense_retriever,
                    enable_rag, lastCall, since, dense_failed, link_in, link_out,
                    procs, loaded_at, constructor_runs, chat >>

-----------------------------------------------------------------------------

(* Initial state: the process has started, nothing is loaded *)

InitCommon ==
    /\ portfolio_cache = EmptyCache
    /\ dense_retriever = NoRetriever
    /\ lastCall = NoCall
    /\ since = NoChange
    /\ dense_failed = FALSE
    /\ link_out = <<>>
    /\ procs = [p \in Procs |-> IdleProc]
    /\ loaded_at = 0
    /\ constructor_runs = 0
    /\ chat = NoChat
    /\ poll = NoPoll

Init ==
    /\ InitCommon
    /\ file \in {f \in Files : f.readable /\ f.mtime = 0}
    /\ index_file \in IndexFiles
    /\ meta_file \in MetaFiles
    /\ enable_rag \in EnvValues
    /\ link_in = EmptyString

-----------------------------------------------------------------------------
(* The world outside the process *)

\* portfolio.json is written: any content, any mtime (a copy or a restore
\* can set an older one).  The rewrite is "advancing" when it puts a new
\* document under an mtime later than the file's and the cache's.
EditFile ==
    \E content \in Contents, mtime \in Times :
        /\ file' = [exists |-> TRUE, readable |-> file.readable,
                    content |-> content, mtime |-> mtime]
        /\ file' # file
        /\ since' = IF /\ file.exists /\ file.readable
                       /\ content \in DocContents /\ content # file.content
                       /\ mtime > file.mtime
                       /\ mtime > portfolio_cache.last_modified
                    THEN [event |-> "rewrite", reads |-> 0]
                    ELSE NoChange
        /\ lastCall' = NoCall
        /\ UNCHANGED << chat, poll, portfolio_cache, index_file, meta_file, dense_retriever,
                        enable_rag, dense_failed, link_in, link_out,
                        procs, loaded_at, constructor_runs >>

\* portfolio.json is replaced by a new version, the clock moving on (up to
\* the bound, where the new version lands in the same timestamp)
ReplaceFile ==
    \E content \in Contents :
        /\ file' = [exists |-> TRUE, readable |-> TRUE, content |-> content,
                    mtime |-> IF file.mtime < MaxTime THEN file.mtime + 1 ELSE MaxTime]
        /\ file' # file
        /\ since' = NoChange
        /\ lastCall' = NoCall
        /\ UNCHANGED << chat, poll, portfolio_cache, index_file, meta_file, dense_retriever,
                        enable_rag, dense_failed, link_in, link_out,
                        procs, loaded_at, constructor_runs >>

DeleteFile ==
    /\ file.exists
    /\ file' = MissingFile
    /\ since' = NoChange
    /\ lastCall' = NoCall
    /\ UNCHANGED << chat, poll, portfolio_cache, index_file, meta_file, dense_retriever,
                    enable_rag, dense_failed, link_in, link_out,
                    procs, loaded_at, constructor_runs >>

\* chmod: the permissions change, the mtime does not
ChmodFile ==
    /\ file.exists
    /\ file' = [file EXCEPT !.readable = ~@]
    /\ since' = NoChange
    /\ lastCall' = NoCall
    /\ UNCHANGED << chat, poll, portfolio_cache, index_file, meta_file, dense_retriever,
                    enable_rag, dense_failed, link_in, link_out,
                    procs, loaded_at, constructor_runs >>

\* the index builder runs, or the artifact files are removed or damaged
SetArtifacts ==
    \E idx \in IndexFiles, meta \in MetaFiles :
        /\ << idx, meta >> # << index_file, meta_file >>
        /\ index_file' = idx
        /\ meta_file' = meta
        /\ lastCall' = NoCall
        /\ since' = NoChange
        /\ UNCHANGED << chat, poll, file, portfolio_cache, dense_retriever, enable_rag,
                        dense_failed, link_in, link_out,
                        procs, loaded_at, constructor_runs >>

SetEnv ==
    \E env \in EnvValues :
        /\ env # enable_rag
        /\ enable_rag' = env
        /\ lastCall' = NoCall
        /\ since' = NoChange
        /\ UNCHANGED << chat, poll, file, portfolio_cache, index_file, meta_file,
                        dense_retriever, dense_failed, link_in, link_out,
                        procs, loaded_at, constructor_runs >>

-----------------------------------------------------------------------------
(* The calls *)

LoadPortfolioCall ==
    \E r \in {LoadPortfolio(portfolio_cache, file)} :
        /\ portfolio_cache' = r.cache
        /\ lastCall' = [NoCall EXCEPT !.op = "load", !.ret = r.ret,
                          !.reads = r.reads, !.failed = r.failed,
                          !.pre = portfolio_cache, !.prior = PriorOf(lastCall)]
        /\ loaded_at' = LoadedAt(r, file, loaded_at)
        /\ since' = Count(since, r.reads)
        /\ UNCHANGED << chat, poll, file, index_file, meta_file, dense_retriever, enable_rag,
                        dense_failed, link_in, link_out,
                        procs, constructor_runs >>

ReloadPortfolioCall ==
    \E r \in {ReloadPortfolio(portfolio_cache, file)} :
        /\ portfolio_cache' = r.cache
        /\ lastCall' = [NoCall EXCEPT !.op = "reload", !.ret = r.ret,
                          !.reads = r.reads, !.failed = r.failed,
                          !.pre = portfolio_cache, !.prior = PriorOf(lastCall)]
        /\ loaded_at' = LoadedAt(r, file, loaded_at)
        /\ since' = NoChange
        /\ UNCHANGED << chat, poll, file, index_file, meta_file, dense_retriever, enable_rag,
                        dense_failed, link_in, link_out,
                        procs, constructor_runs >>

KeywordContextCall ==
    \E section \in Sections, question \in Questions :
        \E r \in {KeywordContext(portfolio_cache, file, section, question)} :
            /\ portfolio_cache' = r.cache
            /\ lastCall' = [NoCall EXCEPT !.op = "keyword", !.section = section,
                              !.question = question, !.ret = r.ret,
                              !.raised = r.raised, !.reads = r.reads,
                              !.failed = r.failed, !.pre = portfolio_cache]
            /\ loaded_at' = LoadedAt(r, file, loaded_at)
            /\ since' = Count(since, r.reads)
            /\ UNCHANGED << chat, poll, file, index_file, meta_file, dense_retriever,
                            enable_rag, dense_failed, link_in, link_out,
                            procs, constructor_runs >>

\* Requests the selector is driven with
SelectSections == {NoSection, "EDUCATION"}
SelectQuestions ==
    { <<>>,
      <<"P", "r", "o", "j", "e", "c", "t", "s">> }

SelectContextCall ==
    \E section \in SelectSections, question \in SelectQuestions :
      \E out \in DenseOutcomes(enable_rag) :
        \E r \in {SelectContext(portfolio_cache, file, dense_retriever, index_file,
                                 meta_file, enable_rag, section, question,
                                 out[1], out[2])} :
            /\ portfolio_cache' = r.cache
            /\ dense_retriever' = r.retr
            /\ dense_failed' = (dense_failed \/ r.unavailable)
            /\ lastCall' = [NoCall EXCEPT !.op = "select", !.section = section,
                              !.question = question,
                              !.deps = IF r.attempted THEN out[1] ELSE TRUE,
                              !.oracle = IF r.searched THEN out[2] ELSE NoOracle,
                              !.ret = r.ret, !.raised = r.raised,
                              !.reads = r.reads, !.failed = r.failed,
                              !.pre = portfolio_cache, !.preRetr = dense_retriever,
                              !.attempted = r.attempted, !.searched = r.searched,
                              !.unavailable = r.unavailable, !.dense = r.dense,
                              !.wasFailed = dense_failed]
            /\ loaded_at' = LoadedAt(r, file, loaded_at)
            /\ constructor_runs' = CountRun(constructor_runs, r.attempted)
            /\ since' = Count(since, r.reads)
            /\ UNCHANGED << chat, poll, file, index_file, meta_file, enable_rag, link_in, link_out,
                            procs >>

\* no request is being observed
Idle == lastCall.op = "none"

\* the request is answered; the observation of it is dropped
Return ==
    /\ lastCall.op # "none"
    /\ lastCall' = NoCall
    /\ UNCHANGED << chat, poll, file, portfolio_cache, index_file, meta_file, dense_retriever,
                    enable_rag, since, dense_failed, link_in, link_out,
                    procs, loaded_at, constructor_runs >>

ExtractLinksCall ==
    /\ lastCall.op = "none"
    /\ link_out' = ExtractLinks(link_in)
    /\ lastCall' = [NoCall EXCEPT !.op = "extract", !.raised = Uncaught(link_in)]
    /\ UNCHANGED << chat, poll, file, portfolio_cache, index_file, meta_file, dense_retriever,
                    enable_rag, since, dense_failed, link_in,
                    procs, loaded_at, constructor_runs >>

-----------------------------------------------------------------------------
(* Specifications *)

\* The selector with its store and retriever: the portfolio file is
\* replaced once at most, the artifact files and the flag change freely
Next ==
    \/ (Idle /\ file.mtime = 0 /\ ReplaceFile)
    \/ (Idle /\ SetArtifacts)
    \/ (Idle /\ SetEnv)
    \/ (Idle /\ SelectContextCall)
    \/ Return

Spec == Init /\ [][Next]_vars

\* The portfolio store alone
InitStore ==
    /\ InitCommon
    /\ file \in Files
    /\ index_file = "absent"
    /\ meta_file = "absent"
    /\ enable_rag = EnvUnset
    /\ link_in = EmptyString

NextStore ==
    \/ EditFile
    \/ DeleteFile
    \/ ChmodFile
    \/ LoadPortfolioCall
    \/ ReloadPortfolioCall

SpecStore == InitStore /\ [][NextStore]_vars

\* The keyword router over every question and hint
NextKeyword ==
    \/ (Idle /\ ReplaceFile)
    \/ (Idle /\ DeleteFile)
    \/ (Idle /\ KeywordContextCall)
    \/ Return

SpecKeyword == InitStore /\ [][NextKeyword]_vars

\* The store under requests in flight together, the file replaced and
\* deleted at any moment
\* The versions of portfolio.json written while requests are in flight: two
\* documents, and text that is not JSON
ConcContents == {"docA", "docB", "corrupt"}

InitConc ==
    /\ InitCommon
    /\ file \in {f \in Files : /\ f.exists /\ f.readable /\ f.mtime = 0
                                /\ f.content \in ConcContents}
    /\ index_file = "absent"
    /\ meta_file = "absent"
    /\ enable_rag = EnvUnset
    /\ link_in = EmptyString

NextConc ==
    \/ (file.mtime < MaxTime /\ ReplaceFile /\ file'.content \in ConcContents)
    \/ DeleteFile
    \/ \E p \in Procs : Begin(p)
    \/ \E p \in Procs : Reset(p)
    \/ \E p \in Procs : Stat(p)
    \/ \E p \in Procs : Test(p)
    \/ \E p \in Procs : Read(p)
    \/ \E p \in Procs : StoreData(p)
    \/ \E p \in Procs : StoreTs(p)
    \/ \E p \in Procs : ReturnData(p)
    \/ \E p \in Procs : Respond(p)

SpecConc == InitConc /\ [][NextConc]_vars

\* The store under requests in flight together while the file is replaced,
\* each version under a later mtime than the one before
NextRace ==
    \/ (file.mtime < MaxTime /\ ReplaceFile /\ file'.content \in ConcContents)
    \/ \E p \in Procs : Begin(p)
    \/ \E p \in Procs : Reset(p)
    \/ \E p \in Procs : Stat(p)
    \/ \E p \in Procs : Test(p)
    \/ \E p \in Procs : Read(p)
    \/ \E p \in Procs : StoreData(p)
    \/ \E p \in Procs : StoreTs(p)
    \/ \E p \in Procs : ReturnData(p)
    \/ \E p \in Procs : Respond(p)

SpecRace == InitConc /\ [][NextRace]_vars

\* The link extractor on every context
InitLinks ==
    /\ InitCommon
    /\ file = MissingFile
    /\ index_file = "absent"
    /\ meta_file = "absent"
    /\ enable_rag = EnvUnset
    /\ link_in \in LinkContexts

NextLinks == ExtractLinksCall

SpecLinks == InitLinks /\ [][NextLinks]_vars

\* The chat endpoint with other requests and file replacements arriving
\* while it waits for its backend
InitChat ==
    /\ InitCommon
    /\ file \in {f \in Files : f.exists /\ f.readable /\ f.mtime = 0}
    /\ index_file \in {"absent", "valid"}
    /\ meta_file = (IF index_file = "valid" THEN "metaA" ELSE "absent")
    /\ enable_rag \in {EnvUnset, [set |-> TRUE, val |-> <<"t", "r", "u", "e">>]}
    /\ link_in = EmptyString

NextChat ==
    \/ (chat.pc \in {"idle", "await"} /\ file.mtime < MaxTime /\ ReplaceFile)
    \/ ChatSelect
    \/ ChatAnswer
    \/ ChatRespond
    \/ ChatReturn
    \/ ReloadRequest
    \/ SectionsRequest

SpecChat == InitChat /\ [][NextChat]_vars

\* The link merge of the chat endpoint on every pair of a backend's list
\* and a context
InitMerge ==
    /\ portfolio_cache = EmptyCache
    /\ dense_retriever = NoRetriever
    /\ lastCall = NoCall
    /\ since = NoChange
    /\ dense_failed = FALSE
    /\ link_out = <<>>
    /\ procs = [p \in Procs |-> IdleProc]
    /\ loaded_at = 0
    /\ constructor_runs = 0
    /\ poll = NoPoll
    /\ file = MissingFile
    /\ index_file = "absent"
    /\ meta_file = "absent"
    /\ enable_rag = EnvUnset
    /\ link_in = EmptyString
    /\ chat \in {[NoChat EXCEPT !.pc = "merge", !.provider = "model",
                                !.context = ctx, !.loads = 1,
                                !.answer = Say(<<"generated">>),
                                !.provider_links = bl] :
                    ctx \in LinkContexts, bl \in BackendLinks}

NextMerge == ChatRespond

SpecMerge == InitMerge /\ [][NextMerge]_vars

\* One call of HFReplicateProvider.answer; every await of it ends, the HTTP
\* client giving up after its timeout
InitPoll ==
    /\ InitCommon
    /\ file = MissingFile
    /\ index_file = "absent"
    /\ meta_file = "absent"
    /\ enable_rag = EnvUnset
    /\ link_in = EmptyString

NextPoll ==
    \/ PollStart
    \/ PollPost
    \/ PollSleep
    \/ PollGet

SpecPoll == InitPoll /\ [][NextPoll]_vars /\ WF_vars(NextPoll)

-----------------------------------------------------------------------------
(* Claims *)

\* The document the observed call got from load_portfolio
LoadedDoc == LoadPortfolio(lastCall.pre, file).ret

\* C1: with a known section hint S, keyword_context returns the serialized
\* content of section S of the document, whatever the question says (stated
\* for documents that are mappings).
C1_SectionHintOverride ==
    (lastCall.op = "keyword" /\ lastCall.section \in KnownSections /\ IsDict(LoadedDoc))
        => /\ ~lastCall.raised
           /\ lastCall.ret = JsonDumps(Get(LoadedDoc, KeyOf(lastCall.section), EmptyList))

\* C2: the list extract_links returns never holds two entries with the same
\* url.
C2_LinkDeduplication ==
    lastCall.op = "extract"
        => \A i, j \in 1..Len(link_out) :
              i # j => link_out[i].url # link_out[j].url

\* C3: once a dense_context call has found the retriever unavailable (an
\* artifact absent, or the constructor failing), no later call attempts the
\* construction, calls search or returns a dense context.
C3_PermanentUnavailability ==
    (lastCall.op = "select" /\ lastCall.wasFailed)
        => ~lastCall.attempted /\ ~lastCall.searched /\ ~lastCall.dense

\* C4: select_context never raises.
C4_SelectContextTotal == lastCall.op = "select" => ~lastCall.raised

\* The values of ENABLE_RAG that switch semantic retrieval on
EnabledValues ==
    { [set |-> TRUE, val |-> <<"t", "r", "u", "e">>],
      [set |-> TRUE, val |-> <<"T", "r", "u", "e">>] }

ArtifactAbsent == index_file = "absent" \/ meta_file = "absent"

\* The retriever was usable in the observed call: both artifacts present and
\* the retriever built before it or built by it
WasAvailable ==
    /\ ~ArtifactAbsent
    /\ lastCall.preRetr.built \/ ConstructOk(index_file, meta_file, lastCall.deps)

\* What the search of the observed call produced ("" when it raised)
SearchResult ==
    IF SearchRaises(IF lastCall.preRetr.built THEN lastCall.preRetr.chunks
                    ELSE MetaLoad(meta_file), lastCall.oracle)
    THEN EmptyString
    ELSE Search(IF lastCall.preRetr.built THEN lastCall.preRetr.chunks
                ELSE MetaLoad(meta_file), lastCall.oracle)

\* What keyword_context gives for the observed call's arguments and state
KeywordResult ==
    KeywordContext(lastCall.pre, file, lastCall.section, lastCall.question)

\* C5: select_context returns the dense-search context exactly when the flag
\* is enabled, the retriever is available and its search result is
\* non-empty; otherwise it returns (or raises) what keyword_context does.
C5_SelectionPrecedence ==
    lastCall.op = "select"
        => IF enable_rag \in EnabledValues /\ WasAvailable /\ Truthy(SearchResult)
           THEN /\ lastCall.dense
                /\ ~lastCall.raised
                /\ lastCall.ret = SearchResult
           ELSE /\ ~lastCall.dense
                /\ lastCall.raised = KeywordResult.raised
                /\ lastCall.ret = KeywordResult.ret

\* C5 witness: a call that built the retriever and returned its context
C5_Witness ==
    /\ lastCall.op = "select"
    /\ lastCall.attempted
    /\ lastCall.dense
    /\ lastCall.ret = Text(<<"Project: Alpha">>)

\* C6: in every state of the file, two consecutive load_portfolio calls
\* return the same document and read the file at most once between them, the
\* second call reading nothing.
C6_LoadIdempotence ==
    (lastCall.op = "load" /\ lastCall.prior.op = "load")
        => /\ lastCall.ret = lastCall.prior.ret
           /\ lastCall.reads = 0
           /\ lastCall.prior.reads + lastCall.reads <= 1

FileIsDocument == file.exists /\ file.readable /\ file.content \in DocContents

\* C7: after the file was rewritten with a new document and an advanced
\* mtime, a load_portfolio returns exactly that document and the file has
\* been read exactly once since; and the load_portfolio that follows a
\* reload_portfolio returns exactly the document in the file, without
\* another read.
C7_ReloadCorrectness ==
    /\ (lastCall.op = "load" /\ since.event = "rewrite")
          => /\ lastCall.ret = JsonLoad(file.content)
             /\ since.reads = 1
    /\ (lastCall.op = "load" /\ lastCall.prior.op = "reload" /\ FileIsDocument)
          => /\ lastCall.ret = JsonLoad(file.content)
             /\ lastCall.reads = 0

\* C8: reload_portfolio re-reads a readable file that holds a document,
\* whatever its mtime, and returns (and caches) the document just read.
C8_ForcedReloadUnconditional ==
    (lastCall.op = "reload" /\ FileIsDocument)
        => /\ lastCall.reads = 1
           /\ lastCall.ret = JsonLoad(file.content)
           /\ portfolio_cache.data = JsonLoad(file.content)

\* C9 as stated: whenever the file is missing, unreadable or not valid JSON,
\* load_portfolio and reload_portfolio return {} and do not raise.
C9_LoadFailureAbsorbed_Original ==
    (/\ lastCall.op \in {"load", "reload"}
     /\ (~file.exists \/ ~file.readable \/ ~Parses(file.content)))
        => /\ ~lastCall.raised
           /\ lastCall.ret = EmptyDict

\* The observed load went to the file: nothing was cached, or the file's
\* mtime is later than the cached timestamp (0 after reload_portfolio's reset)
WentToFile ==
    \/ lastCall.pre.data = None
    \/ file.mtime > (IF lastCall.op = "reload" THEN 0 ELSE lastCall.pre.last_modified)

\* C9, amended: load_portfolio and reload_portfolio never raise; they return
\* {} when the file is missing, and when the load goes to a file that is
\* unreadable or not valid JSON (whenever the except clause runs).
C9_LoadFailureAbsorbed ==
    lastCall.op \in {"load", "reload"}
        => /\ ~lastCall.raised
           /\ ~file.exists => lastCall.ret = EmptyDict
           /\ (file.exists /\ WentToFile /\ (~file.readable \/ ~Parses(file.content)))
                 => lastCall.ret = EmptyDict
           /\ lastCall.failed => lastCall.ret = EmptyDict

\* C9 witness: a document is cached, the newer file is not valid JSON, and
\* the call returned {}
C9_Witness ==
    /\ lastCall.op = "load"
    /\ lastCall.pre.data = DocA
    /\ file.exists /\ file.readable /\ file.content = "corrupt"
    /\ lastCall.reads = 1
    /\ lastCall.ret = EmptyDict

\* C10: with an index artifact absent, select_context under an enabled flag
\* returns what it returns, from the same state and for the same arguments,
\* under every disabled value of the flag.
C10_UnavailableEqualsDisabled ==
    (lastCall.op = "select" /\ enable_rag \in EnabledValues /\ ArtifactAbsent)
        => \A off \in EnvValues \ EnabledValues :
              \E r \in {SelectContext(lastCall.pre, file, lastCall.preRetr, index_file,
                                      meta_file, off, lastCall.section,
                                      lastCall.question, lastCall.deps, lastCall.oracle)} :
                  /\ r.ret = lastCall.ret
                  /\ r.raised = lastCall.raised
                  /\ r.cache = portfolio_cache

\* C10 witness: the retriever was built, an artifact has been removed since,
\* and the call under the enabled flag returned the keyword context
C10_Witness ==
    /\ lastCall.op = "select"
    /\ enable_rag \in EnabledValues
    /\ ArtifactAbsent
    /\ lastCall.preRetr.built
    /\ lastCall.ret = JsonDumps(JList(<<EduMS>>))

\* The keyword sets in their priority order, and the section each stands for
KeywordSets ==
    << ProjectsKeywords, SkillsKeywords, ExperienceKeywords, EducationKeywords,
       CertificationsKeywords >>
SectionKeys == << "projects", "skills", "experience", "education", "certifications" >>

\* The sets that have a keyword occurring in the lower-cased question
Matching(question) ==
    {i \in 1..Len(KeywordSets) : AnyIn(KeywordSets[i], Lower(question))}
FirstMatch(question) ==
    CHOOSE i \in Matching(question) : \A j \in Matching(question) : i <= j

\* C11: without a known section hint, keyword_context returns the section
\* of the first keyword set, in the order projects, skills, experience,
\* education, certifications, that has a keyword occurring in the lower-cased
\* question (the document being a mapping).
C11_KeywordPriority ==
    (/\ lastCall.op = "keyword"
     /\ lastCall.section \notin KnownSections
     /\ Matching(lastCall.question) # {}
     /\ IsDict(LoadedDoc))
        => /\ ~lastCall.raised
           /\ lastCall.ret =
                 JsonDumps(Get(LoadedDoc, SectionKeys[FirstMatch(lastCall.question)],
                               EmptyList))

\* C11 witness: "skills built" matches the skills and the projects keywords
\* and the projects of the document came back
C11_Witness ==
    /\ lastCall.op = "keyword"
    /\ lastCall.section = NoSection
    /\ lastCall.question = <<"s", "k", "i", "l", "l", "s", " ", "b", "u", "i", "l", "t">>
    /\ Matching(lastCall.question) = {1, 2}
    /\ lastCall.ret = JsonDumps(JList(<<ProjAlpha, ProjBeta>>))

\* C12: without a known section hint and with no keyword in the question,
\* keyword_context returns the serialization of the whole document that
\* load_portfolio gave it.
C12_FullDocumentFallback ==
    (/\ lastCall.op = "keyword"
     /\ lastCall.section \notin KnownSections
     /\ Matching(lastCall.question) = {})
        => /\ ~lastCall.raised
           /\ lastCall.ret = JsonDumps(LoadedDoc)

\* C12 witness: the hint "education" is not a known name, "hi" holds no
\* keyword, and the whole of the second document came back
C12_Witness ==
    /\ lastCall.op = "keyword"
    /\ lastCall.section = "education"
    /\ lastCall.question = <<"h", "i">>
    /\ lastCall.ret = JsonDumps(DocB)

\* The request is reading the file or storing what it read
Reloading(p) == procs[p].pc \in {"read", "store_data", "store_ts"}

\* C13: a load_portfolio or reload_portfolio call returns either the
\* document that was cached when it began or the document it read itself
\* (whole in both cases), and a load_portfolio call that looks at the cache
\* finds a document together with the timestamp it was loaded under.
C13_AtomicReplacement ==
    /\ \A p \in Procs :
          procs[p].pc = "return"
              => \/ portfolio_cache.data = procs[p].prev
                 \/ procs[p].read /\ portfolio_cache.data = procs[p].doc
    /\ \A p \in Procs :
          (procs[p].pc = "test" /\ procs[p].op = "load")
              => portfolio_cache.last_modified = loaded_at

C15_OneTimeConstruction == constructor_runs <= 1

\* What the first select_context call of a fresh process (nothing cached, no
\* retriever) returns for the observed call's arguments, in the observed
\* state of the flag, the artifact files and the portfolio file
FreshResult ==
    SelectContext(EmptyCache, file, NoRetriever, index_file, meta_file, enable_rag,
                  lastCall.section, lastCall.question, lastCall.deps, lastCall.oracle)

CacheCurrent ==
    \/ lastCall.pre.data = None
    \/ ~file.exists
    \/ file.mtime > lastCall.pre.last_modified
    \/ /\ file.readable /\ Parses(file.content)
       /\ lastCall.pre.data = JsonLoad(file.content)

SearchedChunks ==
    IF lastCall.preRetr.built THEN lastCall.preRetr.chunks ELSE MetaLoad(meta_file)

\* C17: when the search of a constructed retriever raises, select_context
\* takes no dense context and ends as keyword_context does for the same
\* arguments.
C17_SearchFailureFallsBack ==
    (/\ lastCall.op = "select"
     /\ lastCall.searched
     /\ SearchRaises(SearchedChunks, lastCall.oracle))
        => /\ ~lastCall.dense
           /\ lastCall.ret = KeywordResult.ret
           /\ lastCall.raised = KeywordResult.raised

\* C17 witness: the search raised and the education section of the first
\* document came back
C17_Witness ==
    /\ lastCall.op = "select"
    /\ lastCall.searched
    /\ lastCall.oracle.raises
    /\ lastCall.section = "EDUCATION"
    /\ lastCall.ret = JsonDumps(JList(<<EduMS>>))

\* C18: extract_links returns at most 4 entries.
C18_LinkCap == lastCall.op = "extract" => Len(link_out) <= LinkCap

\* C18 witness: the records of the context carry more than 4 links and 4
\* came back
C18_Witness ==
    /\ lastCall.op = "extract"
    /\ LoadsOk(link_in) /\ IsList(link_in.val)
    /\ Len(AllLinks(link_in.val.v)) > LinkCap
    /\ Len(link_out) = LinkCap

\* C19: extract_links never raises, and returns the empty list for a
\* context that json.loads cannot parse.
C19_ExtractLinksTotal ==
    lastCall.op = "extract"
        => /\ ~lastCall.raised
           /\ ~LoadsOk(link_in) => link_out = <<>>

\* C19 witness: the context is dense-search text and the empty list came back
C19_Witness ==
    /\ lastCall.op = "extract"
    /\ link_in = Text(<<"About: bio">>)
    /\ ~lastCall.raised
    /\ link_out = <<>>

\* C20: a context that is plain text, or parses to something other than a
\* list, yields the empty list.
C20_StructuralDiscovery ==
    (lastCall.op = "extract" /\ (~LoadsOk(link_in) \/ ~IsList(link_in.val)))
        => link_out = <<>>

\* C20 witness: the context is the whole first document, whose projects
\* carry links, and the empty list came back
C20_Witness ==
    /\ lastCall.op = "extract"
    /\ link_in = JsonDumps(DocA)
    /\ AllLinks(link_in.val.v["projects"].v) # <<>>
    /\ link_out = <<>>

\* The record's name, or "Project" for a record without one
NameOr(rec) == IF "name" \in rec.k THEN rec.v["name"] ELSE "Project"

\* The three links a record may give, in the order repo, demo, url, each with
\* the condition under which it is given
Candidates(rec) ==
    << [given |-> "repo" \in rec.k,
        label |-> <<NameOr(rec), " - GitHub">>, field |-> "repo"],
       [given |-> "demo" \in rec.k,
        label |-> <<NameOr(rec), " - Live Demo">>, field |-> "demo"],
       [given |-> "url" \in rec.k /\ "name" \in rec.k,
        label |-> <<NameOr(rec)>>, field |-> "url"] >>

RECURSIVE Labelled(_, _)
Labelled(items, n) ==
    IF items = <<>> THEN <<>>
    ELSE IF n > 3 THEN Labelled(Tail(items), 1)
    ELSE IF items[1].t = "dict" /\ Candidates(items[1])[n].given
    THEN <<[label |-> Candidates(items[1])[n].label,
            url |-> items[1].v[Candidates(items[1])[n].field]]>>
         \o Labelled(items, n + 1)
    ELSE Labelled(items, n + 1)

\* C21: for a sequence context, extract_links returns the first 4 of: per
\* record, in record order, "<name> - GitHub" for repo, then
\* "<name> - Live Demo" for demo, then name for url when the record has both
\* url and name; "Project" stands for a missing name, and a url without a
\* name gives no link.
C21_LinkLabelling ==
    (lastCall.op = "extract" /\ LoadsOk(link_in) /\ IsList(link_in.val))
        => link_out = SubSeq(Labelled(link_in.val.v, 1), 1,
                             IF Len(Labelled(link_in.val.v, 1)) < 4
                             THEN Len(Labelled(link_in.val.v, 1)) ELSE 4)

\* C21 witness: a record with repo and url but no name gave exactly the
\* link "Project - GitHub", and a named record gave its url link
C21_Witness ==
    /\ lastCall.op = "extract"
    /\ LoadsOk(link_in) /\ IsList(link_in.val)
    /\ Len(link_in.val.v) = 2
    /\ link_in.val.v[1] = JDict([repo |-> "u2", url |-> "u1"])
    /\ link_in.val.v[2] = JDict([name |-> "A", url |-> "u1"])
    /\ link_out = << [label |-> <<"Project", " - GitHub">>, url |-> "u2"],
                     [label |-> <<"A">>, url |-> "u1"] >>

\* The entries of a list of links from position i on whose url occurs at no
\* earlier position of the list
RECURSIVE Kept(_, _)
Kept(all, i) ==
    IF i > Len(all) THEN <<>>
    ELSE (IF \A j \in 1..(i - 1) : all[j].url # all[i].url THEN <<all[i]>> ELSE <<>>)
         \o Kept(all, i + 1)

FirstFour(seq) == [i \in 1..(IF Len(seq) < 4 THEN Len(seq) ELSE 4) |-> seq[i]]

\* C22: the links of a chat response are the backend's links followed by
\* the extractor's links, every entry whose url occurred earlier removed,
\* cut to 4; so no two links of the response share a url and the backend's
\* links come first.
C22_RequestLayerMerge ==
    (chat.pc = "done" /\ chat.status = 200)
        => /\ chat.links = FirstFour(Kept(chat.provider_links \o chat.context_links, 1))
           /\ \A i, j \in 1..Len(chat.links) :
                 i # j => chat.links[i].url # chat.links[j].url
           /\ \A i \in 1..Len(chat.links) :
                 i <= Len(Kept(chat.provider_links, 1))
                     => chat.links[i] = Kept(chat.provider_links, 1)[i]

\* C22 witness: the backend gave three links and the context three more, two
\* of them with one url; the response has the backend's three and then the
\* first of the context's, four in all
C22_Witness ==
    /\ chat.pc = "done" /\ chat.status = 200
    /\ Len(chat.provider_links) = 3
    /\ Len(chat.context_links) = 3
    /\ chat.context_links[1].url = chat.context_links[3].url
    /\ chat.context_links[2].url # chat.context_links[1].url
    /\ Len(chat.links) = 4
    /\ chat.links[3] = chat.provider_links[3]
    /\ chat.links[4] = chat.context_links[1]

\* C23: a failure inside the generation backend reaches the client as a
\* normal response (200) carrying an answer text, never as a 500.
C23_BackendErrorsBecomeText ==
    (chat.pc = "done" /\ chat.backend_failed)
        => /\ chat.status = 200
           /\ chat.answer.t = "str"

\* No request is inside load_portfolio or reload_portfolio
Quiesced == \A p \in Procs : procs[p].pc \in {"idle", "done"}

\* C24: once the concurrent load_portfolio / reload_portfolio calls have
\* returned, a cached timestamp equal to the file's mtime means that the
\* cached document is the file's content; no older document sits under a
\* newer timestamp.
C24_CacheCoherence ==
    (/\ Quiesced
     /\ file.exists
     /\ portfolio_cache.data # None
     /\ portfolio_cache.last_modified = file.mtime)
        => /\ Parses(file.content)
           /\ portfolio_cache.data = JsonLoad(file.content)

\* C24 witness: the file is at its third version, every request has made a
\* call and holds its result, one of them after failing on a version it
\* could not read, and the cache holds the third version under its mtime
C24_Witness ==
    /\ \A p \in Procs : procs[p].pc = "done"
    /\ \E p \in Procs : procs[p].failed
    /\ file.exists /\ file.mtime = 2 /\ file.content = "docB"
    /\ portfolio_cache = [data |-> DocB, last_modified |-> 2]

\* The texts of the chunks at the returned positions that are positions of
\* chunks (0 .. len(chunks)-1), in the returned order
RECURSIVE ReturnedTexts(_, _)
ReturnedTexts(chunks, indices) ==
    IF indices = <<>> THEN <<>>
    ELSE (IF indices[1] \in 0..(Len(chunks) - 1)
          THEN <<chunks[indices[1] + 1][2]>> ELSE <<>>)
         \o ReturnedTexts(chunks, Tail(indices))

\* The texts with "\n\n" between them
RECURSIVE BlankLineJoined(_)
BlankLineJoined(texts) ==
    IF Len(texts) <= 1 THEN texts
    ELSE <<texts[1], "\n\n">> \o BlankLineJoined(Tail(texts))

\* C25: the search returns the texts of the chunks the index returned, in
\* the returned order, joined by a blank line, nothing added, dropped or
\* repeated (an empty result sends select_context to the keyword router).
C25_DenseSearchComposition ==
    (/\ lastCall.op = "select"
     /\ lastCall.searched
     /\ ~lastCall.oracle.raises)
        => IF ReturnedTexts(SearchedChunks, lastCall.oracle.indices) = <<>>
           THEN ~lastCall.dense
           ELSE /\ lastCall.dense
                /\ lastCall.ret.kind = "text"
                /\ lastCall.ret.toks =
                       BlankLineJoined(ReturnedTexts(SearchedChunks, lastCall.oracle.indices))

\* select_context has returned a context to the chat request
Selected26 ==
    \/ chat.pc \in {"await", "merge"}
    \/ chat.pc = "done" /\ (chat.status = 200 \/ chat.backend_failed)

\* The context the keyword router makes of the one document the request read
SnapshotContext ==
    IF Route(chat.section, Lower(chat.question)) = WholeDocument
    THEN JsonDumps(chat.snapshot)
    ELSE JsonDumps(Get(chat.snapshot, Route(chat.section, Lower(chat.question)),
                       EmptyList))

C27_MtimeOnlyProbe ==
    (/\ lastCall.op = "load"
     /\ lastCall.pre.data # None
     /\ file.exists
     /\ file.mtime <= lastCall.pre.last_modified)
        => /\ lastCall.reads = 0
           /\ ~lastCall.failed
           /\ lastCall.ret = lastCall.pre.data
           /\ portfolio_cache = lastCall.pre

\* C27 witness: the first document is cached under timestamp 2, the file
\* holds the second document under the earlier mtime 1, and the call
\* returned the first document without a read
C27_Witness ==
    /\ lastCall.op = "load"
    /\ lastCall.pre = [data |-> DocA, last_modified |-> 2]
    /\ file.exists /\ file.readable
    /\ file.content = "docB" /\ file.mtime = 1
    /\ lastCall.reads = 0
    /\ lastCall.ret = DocA

\* C28: a load_portfolio call that fails leaves the cached document and the
\* cached timestamp as they were when it was called (inside reload_portfolio:
\* as the reset left them); so while the file is corrupt under an mtime
\* later than the cached timestamp, every call reads the file again and
\* returns {}.
C28_StateUnchangedOnError ==
    /\ (lastCall.op = "load" /\ lastCall.failed)
           => portfolio_cache = lastCall.pre
    /\ (lastCall.op = "reload" /\ lastCall.failed)
           => portfolio_cache = [lastCall.pre EXCEPT !.last_modified = 0]
    /\ (/\ lastCall.op = "load"
        /\ file.exists /\ file.readable /\ ~Parses(file.content)
        /\ file.mtime > lastCall.pre.last_modified)
           => /\ lastCall.reads = 1
              /\ lastCall.failed
              /\ lastCall.ret = EmptyDict

\* C28 witness: the first document is cached, the file is corrupt under a
\* later mtime, the call before this one read it and failed, and this call
\* read it again, failed again and returned {}
C28_Witness ==
    /\ lastCall.op = "load"
    /\ lastCall.prior.op = "load" /\ lastCall.prior.failed /\ lastCall.prior.reads = 1
    /\ lastCall.pre = [data |-> DocA, last_modified |-> 1]
    /\ file.exists /\ file.readable /\ file.content = "corrupt" /\ file.mtime = 2
    /\ lastCall.reads = 1
    /\ lastCall.ret = EmptyDict
    /\ portfolio_cache = lastCall.pre

\* C29: a returned position that is not a chunk position (>= len(chunks), or
\* negative like the -1 that marks "no result") adds no text: every text of
\* the dense context is the chunk at a returned position in 0..len(chunks)-1.
C29_InvalidPositionsSkipped ==
    (lastCall.op = "select" /\ lastCall.dense)
        => \A n \in 1..Len(lastCall.ret.toks) :
              lastCall.ret.toks[n] # "\n\n"
                  => \E i \in 1..Len(lastCall.oracle.indices) :
                        /\ lastCall.oracle.indices[i] \in 0..(Len(SearchedChunks) - 1)
                        /\ lastCall.ret.toks[n] =
                               SearchedChunks[lastCall.oracle.indices[i] + 1][2]

TerminalStatuses == {"succeeded", "failed", "cancelled"}
ErrorTexts ==
    {"Invalid Replicate API token", "Rate limit exceeded", "Replicate API error",
     "Error connecting to Replicate"}

\* What holds at every moment of a call of HFReplicateProvider.answer
PollingSafe ==
    /\ poll.attempts <= 60
    /\ ~poll.raised /\ poll.pc # "raised"
    /\ poll.pc = "returned" => (poll.text # "none" /\ poll.links = <<>>)
    /\ poll.status \in TerminalStatuses => poll.pc = "returned"
    /\ (poll.pc = "returned" /\ poll.status = "succeeded")
           => poll.text \in {"answer", "Error connecting to Replicate"}
    /\ (poll.pc = "returned" /\ poll.status \in {"failed", "cancelled"})
           => poll.text = "Replicate prediction failed"
    /\ (poll.pc = "returned" /\ poll.text = "Request timed out")
           => (poll.attempts = 60 /\ poll.status \notin TerminalStatuses)
    /\ (poll.pc = "returned" /\ poll.status \notin TerminalStatuses)
           => \/ poll.text \in ErrorTexts
              \/ poll.text = "Request timed out"

\* C30: HFReplicateProvider.answer polls at most 60 times, returns at the
\* first poll that shows succeeded, failed or cancelled, returns the
\* timed-out text after the 60th poll without such a status, turns every
\* HTTP or connection error into an error text, raises nothing, and always
\* ends by returning a text with (no) links.
C30_BoundedPolling == []PollingSafe /\ <>(poll.pc = "returned")

\* C30 witness: sixty polls showed no final status and the call returned
\* the timed-out text
C30_Witness ==
    /\ poll.pc = "returned"
    /\ poll.attempts = 60
    /\ poll.status = "processing"
    /\ poll.text = "Request timed out"
    /\ poll.links = <<>>

====
